---- MODULE Spec2Model ----
(***************************************************************************)
(* Model of the GapAndGo strategy engine (bot/strategy/gap_and_go.py).     *)
(*                                                                         *)
(* The engine keeps six dictionaries keyed by symbol.  A dictionary is     *)
(* modelled as a function whose DOMAIN is the set of keys present, so a    *)
(* missing key is a symbol outside the DOMAIN.  An Optional value is a     *)
(* sequence of length at most one: None is <<>>, a present value v is      *)
(* <<v>>.  Prices are positive integers (ticks).  A timestamp is the UTC   *)
(* instant in minutes; a naive datetime is read as UTC by the code, and an *)
(* aware one stands for the same instant, so both are this one number.     *)
(***************************************************************************)
EXTENDS Integers, Sequences, FiniteSets, TLC

\* ---------------------------------------------------------------- bounds
MaxDay == 1
MaxPrice == 2
MaxConfirm == 2

\* ------------------------------------------------------------- constants
trade_cutoff_minute == 5
exit_time_hour == 15
exit_time_minute == 0
\* float("-inf"): below every price of the model
NegInf == -1
\* UTC offset of America/New_York (standard time), in minutes
EasternOffset == 300

Symbols == {"AAPL", "MSFT"}
\* the symbol whose bars carry timestamps; the other symbol's bars have none
Stamped == {"AAPL"}
Prices == 1..MaxPrice

None == <<>>
Some(v) == <<v>>

\* datetime.time(h, m) as minutes since midnight
Time(h, m) == h * 60 + m
DayLen == Time(24, 0)

\* The UTC times of day at which the feed produces bars.  In Eastern time:
\* 20:00 of the previous date (after-hours), 08:00 (premarket), 09:35 (market
\* hours, the last minute of the entry window) and 15:00 (market hours, the
\* exit time).
UtcSlots == {Time(1, 0), Time(13, 0), Time(14, 35), Time(20, 0)}
Timestamps == {d * DayLen + m : d \in 0..MaxDay, m \in UtcSlots}

\* Bars as the feed supplies them: the high is no lower than the open and
\* the close.  low and volume are never read by the engine.
Bar == {b \in [timestamp : {None} \cup {Some(t) : t \in Timestamps},
               open : Prices, high : Prices, close : Prices] :
            b.high >= b.open /\ b.high >= b.close}

VARIABLES confirm_bars, premarket_high, previous_close, first_break_done,
          buffer, in_position, current_date,
          last, clock, holding, boughtToday, pmToday, mktRef, evalLog

engine == <<premarket_high, previous_close, first_break_done, buffer,
            in_position, current_date>>
history == <<clock, holding, boughtToday, pmToday, mktRef, evalLog>>
vars == <<confirm_bars, engine, last, history>>

\* ------------------------------------------------------- dictionaries
Get(d, k, default) == IF k \in DOMAIN d THEN d[k] ELSE default
Put(d, k, v) == [x \in DOMAIN d \cup {k} |-> IF x = k THEN v ELSE d[x]]
Empty == [x \in {} |-> 0]

Max(a, b) == IF b > a THEN b ELSE a

\* The six dictionaries as one value
State == [premarket_high |-> premarket_high, previous_close |-> previous_close,
          first_break_done |-> first_break_done, buffer |-> buffer,
          in_position |-> in_position, current_date |-> current_date]

\* --------------------------------------------------- time classification
\* faulty variant: a missing timestamp read as the epoch
get_eastern_time_epoch(bar) ==
    IF bar.timestamp = None THEN Some(0 - EasternOffset)
    ELSE Some(bar.timestamp[1] - EasternOffset)

\* _get_eastern_time: None for a bar without timestamp, else the Eastern
\* wall-clock minute count
get_eastern_time(bar) ==
    IF bar.timestamp = None THEN None
    ELSE Some(bar.timestamp[1] - EasternOffset)

\* eastern_time.strftime("%Y-%m-%d"): the calendar date, as a day number
DateOf(et) == et \div DayLen
\* eastern_time.time(), .hour, .minute
TimeOfDay(et) == et % DayLen
Hour(et) == TimeOfDay(et) \div 60
Minute(et) == TimeOfDay(et) % 60

\* faulty variant: the exit waits until the exit time has passed
should_exit_after(et) == TimeOfDay(et) > Time(exit_time_hour, exit_time_minute)

\* faulty variant: market hours end before 16:00
is_market_hours_before_close(et) ==
    Time(9, 30) <= TimeOfDay(et) /\ TimeOfDay(et) < Time(16, 0)

is_premarket(et) == Time(4, 0) <= TimeOfDay(et) /\ TimeOfDay(et) < Time(9, 30)
is_market_hours(et) == Time(9, 30) <= TimeOfDay(et) /\ TimeOfDay(et) <= Time(16, 0)
should_exit(et) == TimeOfDay(et) >= Time(exit_time_hour, exit_time_minute)

\* faulty variant: a deque without maxlen
Append_unbounded(buf, x, n) == Append(buf, x)

\* deque(maxlen=n).append(x)
Append_maxlen(buf, x, n) ==
    IF Len(buf) < n THEN Append(buf, x) ELSE Append(Tail(buf), x)

\* ------------------------------------------------------- _reset_daily_state
\* faulty variant: the date test dropped, every bar resets
reset_needed_always(st, symbol, date) == TRUE

\* faulty variant: only a symbol without stored date resets
reset_needed_unseen(st, symbol, date) == symbol \notin DOMAIN st.current_date

reset_needed(st, symbol, date) ==
    symbol \notin DOMAIN st.current_date \/ st.current_date[symbol] # date

\* faulty variant: the reset leaves in_position as it is
reset_daily_state_keep_position(st, symbol, date) ==
    IF reset_needed(st, symbol, date)
    THEN [st EXCEPT !.current_date = Put(st.current_date, symbol, date),
                    !.first_break_done = Put(st.first_break_done, symbol, FALSE),
                    !.buffer = Put(st.buffer, symbol, <<>>)]
    ELSE st

\* faulty variant: the reset leaves the buffer as it is
reset_daily_state_keep_buffer(st, symbol, date) ==
    IF reset_needed(st, symbol, date)
    THEN [st EXCEPT !.current_date = Put(st.current_date, symbol, date),
                    !.first_break_done = Put(st.first_break_done, symbol, FALSE),
                    !.in_position = Put(st.in_position, symbol, FALSE)]
    ELSE st

\* faulty variant: the reset closes the position of every symbol
reset_daily_state_every_position(st, symbol, date) ==
    IF reset_needed(st, symbol, date)
    THEN [st EXCEPT !.current_date = Put(st.current_date, symbol, date),
                    !.first_break_done = Put(st.first_break_done, symbol, FALSE),
                    !.buffer = Put(st.buffer, symbol, <<>>),
                    !.in_position = [x \in DOMAIN st.in_position \cup {symbol} |-> FALSE]]
    ELSE st

reset_daily_state(st, symbol, date) ==
    IF reset_needed(st, symbol, date)
    THEN [st EXCEPT !.current_date = Put(st.current_date, symbol, date),
                    !.first_break_done = Put(st.first_break_done, symbol, FALSE),
                    !.buffer = Put(st.buffer, symbol, <<>>),
                    !.in_position = Put(st.in_position, symbol, FALSE)]
    ELSE st

\* ------------------------------------------------------------------ on_bar
\* What one on_bar call yields: the dictionaries after it, the returned
\* signal ("NONE" for a None result), the reference price a market-hours
\* bar resolved and the branch that resolved it, whether the daily reset
\* ran, and whether the bar reached the breakout evaluation (its close was
\* appended to the buffer).
Outcome(st, signal, ref, via, reset, evaluated) ==
    [st |-> st, signal |-> signal, ref |-> ref, via |-> via, reset |-> reset,
     evaluated |-> evaluated]

\* faulty variant: the last premarket high replaces the stored one
track_premarket_last(st, symbol, bar) ==
    [st EXCEPT !.premarket_high = Put(st.premarket_high, symbol, bar.high)]

\* premarket branch
track_premarket(st, symbol, bar) ==
    LET ph == Get(st.premarket_high, symbol, NegInf)
    IN  [st EXCEPT !.premarket_high = Put(st.premarket_high, symbol, Max(ph, bar.high))]

\* after-hours branch
track_close(st, symbol, bar) ==
    [st EXCEPT !.previous_close = Put(st.previous_close, symbol, bar.close)]

\* faulty variant: the open of the first bar is used and not stored
resolve_reference_no_store(st, symbol, bar) ==
    IF symbol \in DOMAIN st.premarket_high /\ st.premarket_high[symbol] # NegInf
    THEN [ref |-> st.premarket_high[symbol], via |-> "premarket_high", st |-> st]
    ELSE IF symbol \in DOMAIN st.previous_close
         THEN [ref |-> st.previous_close[symbol], via |-> "previous_close", st |-> st]
         ELSE [ref |-> bar.open, via |-> "open", st |-> st]

\* faulty variant: the previous close is preferred to the premarket high
resolve_reference_close_first(st, symbol, bar) ==
    IF symbol \in DOMAIN st.previous_close
    THEN [ref |-> st.previous_close[symbol], via |-> "previous_close", st |-> st]
    ELSE IF symbol \in DOMAIN st.premarket_high /\ st.premarket_high[symbol] # NegInf
         THEN [ref |-> st.premarket_high[symbol], via |-> "premarket_high", st |-> st]
         ELSE [ref |-> bar.open, via |-> "open",
               st |-> [st EXCEPT !.premarket_high =
                                    Put(st.premarket_high, symbol, bar.open)]]

\* the reference high of a market-hours bar: the value and the dictionaries
\* after resolving it
resolve_reference(st, symbol, bar) ==
    IF symbol \in DOMAIN st.premarket_high /\ st.premarket_high[symbol] # NegInf
    THEN [ref |-> st.premarket_high[symbol], via |-> "premarket_high", st |-> st]
    ELSE IF symbol \in DOMAIN st.previous_close
         THEN [ref |-> st.previous_close[symbol], via |-> "previous_close", st |-> st]
         ELSE [ref |-> bar.open, via |-> "open",
               st |-> [st EXCEPT !.premarket_high =
                                    Put(st.premarket_high, symbol, bar.open)]]

\* faulty variant: the hour is left out of the minutes since the open
minutes_since_open_in_hour(et) == Minute(et) - 30

minutes_since_open(et) == (Hour(et) - 9) * 60 + (Minute(et) - 30)

\* faulty variant: the breakout must exceed the reference
breakout_strict(cb, buf, bar, ref) ==
    /\ bar.high > ref
    /\ bar.close > ref
    /\ cb > 0 => /\ Len(buf) = cb
                 /\ \A i \in 1..Len(buf) : buf[i] > ref

\* breakout condition on the buffer after the bar's close was appended
breakout(cb, buf, bar, ref) ==
    /\ bar.high >= ref
    /\ bar.close >= ref
    /\ cb > 0 => /\ Len(buf) = cb
                 /\ \A i \in 1..Len(buf) : buf[i] >= ref

\* the entry branch of a market-hours bar of a symbol not in position
try_entry(st, cb, symbol, bar, et, ref, via, reset) ==
    IF minutes_since_open(et) > trade_cutoff_minute
    THEN Outcome(st, "NONE", Some(ref), via, reset, FALSE)
    ELSE IF Get(st.first_break_done, symbol, FALSE)
    THEN Outcome(st, "NONE", Some(ref), via, reset, FALSE)
    ELSE LET buf == Append_maxlen(Get(st.buffer, symbol, <<>>), bar.close, Max(1, cb))
             s1 == [st EXCEPT !.buffer = Put(st.buffer, symbol, buf)]
         IN  IF breakout(cb, buf, bar, ref)
             THEN Outcome([s1 EXCEPT !.first_break_done = Put(s1.first_break_done, symbol, TRUE),
                                     !.in_position = Put(s1.in_position, symbol, TRUE)],
                          "BUY", Some(ref), via, reset, TRUE)
             ELSE Outcome(s1, "NONE", Some(ref), via, reset, TRUE)

\* faulty variant: the exit time sells whether or not a position is open
market_hours_sell_unheld(st, cb, symbol, bar, et, reset) ==
    LET r == resolve_reference(st, symbol, bar)
    IN  IF should_exit(et)
        THEN Outcome([r.st EXCEPT !.in_position = Put(r.st.in_position, symbol, FALSE)],
                     "SELL", Some(r.ref), r.via, reset, FALSE)
        ELSE IF Get(r.st.in_position, symbol, FALSE)
        THEN Outcome(r.st, "NONE", Some(r.ref), r.via, reset, FALSE)
        ELSE try_entry(r.st, cb, symbol, bar, et, r.ref, r.via, reset)

\* the market-hours branch
market_hours(st, cb, symbol, bar, et, reset) ==
    LET r == resolve_reference(st, symbol, bar)
    IN  IF Get(r.st.in_position, symbol, FALSE)
        THEN IF should_exit(et)
             THEN Outcome([r.st EXCEPT !.in_position = Put(r.st.in_position, symbol, FALSE)],
                          "SELL", Some(r.ref), r.via, reset, FALSE)
             ELSE Outcome(r.st, "NONE", Some(r.ref), r.via, reset, FALSE)
        ELSE try_entry(r.st, cb, symbol, bar, et, r.ref, r.via, reset)

on_bar(st, cb, symbol, bar) ==
    LET eastern_time == get_eastern_time(bar)
    IN  IF eastern_time = None
        THEN Outcome(st, "NONE", None, "none", FALSE, FALSE)
        ELSE LET et == eastern_time[1]
                 reset == reset_needed(st, symbol, DateOf(et))
                 s1 == reset_daily_state(st, symbol, DateOf(et))
             IN  IF is_premarket(et)
                 THEN Outcome(track_premarket(s1, symbol, bar), "NONE", None, "none", reset, FALSE)
                 ELSE IF ~is_market_hours(et)
                 THEN Outcome(track_close(s1, symbol, bar), "NONE", None, "none", reset, FALSE)
                 ELSE market_hours(s1, cb, symbol, bar, et, reset)

\* __init__: the dictionaries of a newly constructed engine
Fresh ==
    [premarket_high |-> Empty, previous_close |-> Empty, first_break_done |-> Empty,
     buffer |-> Empty, in_position |-> Empty, current_date |-> Empty]

\* faulty variant: the previous closes survive the restart
on_start_keep_close(st) == [Fresh EXCEPT !.previous_close = st.previous_close]

\* on_start: every dictionary cleared
on_start(st) ==
    [premarket_high |-> Empty, previous_close |-> Empty, first_break_done |-> Empty,
     buffer |-> Empty, in_position |-> Empty, current_date |-> Empty]

\* faulty variant: stopping forgets the open positions
on_stop_flat(st) == [st EXCEPT !.in_position = Empty]

\* on_stop: pass
on_stop(st) == st

\* ------------------------------------------------------- the bar feed
\* The trading date and the phase of an instant in the reference zone, as
\* the design states them (what the claims call date and phase of a bar).
TradingDate(ts) == (ts - EasternOffset) \div DayLen
LocalTime(ts) == (ts - EasternOffset) % DayLen
Phase(ts) ==
    IF Time(4, 0) <= LocalTime(ts) /\ LocalTime(ts) < Time(9, 30) THEN "premarket"
    ELSE IF Time(9, 30) <= LocalTime(ts) /\ LocalTime(ts) <= Time(16, 0) THEN "market"
    ELSE "after"

\* the feed's contract: non-decreasing timestamps per symbol
InOrder(symbol, bar) ==
    bar.timestamp # None /\ clock[symbol] # None => clock[symbol][1] <= bar.timestamp[1]

\* the bar is the first timestamped bar of its trading date for the symbol
NewDate(symbol, bar) ==
    clock[symbol] = None \/ TradingDate(clock[symbol][1]) # TradingDate(bar.timestamp[1])

\* the record of the last call: the operation, its symbol, whether its bar
\* had a timestamp, whether in_position[symbol] was true when it started
\* (for on_start: whether any symbol was in position), and what it yielded
Call(op, symbol, bar, out) ==
    [op |-> op, symbol |-> symbol, stamped |-> bar.timestamp # None,
     held |-> Get(in_position, symbol, FALSE),
     signal |-> out.signal, ref |-> out.ref, via |-> out.via, reset |-> out.reset]
NoBar == [timestamp |-> None, open |-> 0, high |-> 0, close |-> 0]
NoCall(op) == Call(op, "", NoBar, Outcome(State, "NONE", None, "none", FALSE, FALSE))

Set(f, k, v) == [f EXCEPT ![k] = v]
Nothing == [s \in Symbols |-> None]
NoCloses == [s \in Symbols |-> <<>>]
Never == [s \in Symbols |-> FALSE]

\* History of the run, kept beside the engine, per symbol: the last
\* timestamp delivered, whether the last signal returned was a BUY (no SELL
\* after the last BUY) and, for the current
\* trading date of the stream: whether a BUY was returned, the maximum
\* of the premarket highs (kept until the stream leaves market hours), the
\* reference the first market-hours bar resolved (kept while the stream is
\* in market hours), and the closes of
\* the bars that reached the breakout evaluation (the last
\* max(1, confirm_bars) of them).
Record(symbol, bar, out) ==
    IF bar.timestamp = None THEN UNCHANGED history
    ELSE LET ts == bar.timestamp[1]
             new == NewDate(symbol, bar)
             bt == IF new THEN FALSE ELSE boughtToday[symbol]
             pm == IF new THEN None ELSE pmToday[symbol]
             mr == IF new THEN None ELSE mktRef[symbol]
             ev == IF new THEN <<>> ELSE evalLog[symbol]
         IN  /\ clock' = Set(clock, symbol, Some(ts))
             /\ holding' = IF out.signal = "NONE" THEN holding
                           ELSE Set(holding, symbol, out.signal = "BUY")
             /\ boughtToday' = Set(boughtToday, symbol, bt \/ out.signal = "BUY")
             /\ pmToday' = Set(pmToday, symbol,
                               IF Phase(ts) = "after" THEN None
                               ELSE IF Phase(ts) = "market" THEN pm
                               ELSE IF pm = None THEN Some(bar.high)
                               ELSE Some(Max(pm[1], bar.high)))
             /\ mktRef' = Set(mktRef, symbol,
                              IF Phase(ts) # "market" THEN None
                              ELSE IF mr = None THEN out.ref ELSE mr)
             /\ evalLog' = Set(evalLog, symbol,
                               IF out.evaluated
                               THEN Append_maxlen(ev, bar.close, Max(1, confirm_bars))
                               ELSE ev)

Install(st) ==
    /\ premarket_high' = st.premarket_high
    /\ previous_close' = st.previous_close
    /\ first_break_done' = st.first_break_done
    /\ buffer' = st.buffer
    /\ in_position' = st.in_position
    /\ current_date' = st.current_date

\* ------------------------------------------------------------ the machine
\* __init__: empty dictionaries; confirm_bars is the constructor's argument
Init ==
    /\ confirm_bars \in 0..MaxConfirm
    /\ premarket_high = Empty
    /\ previous_close = Empty
    /\ first_break_done = Empty
    /\ buffer = Empty
    /\ in_position = Empty
    /\ current_date = Empty
    /\ last = NoCall("init")
    /\ clock = Nothing
    /\ holding = Never
    /\ boughtToday = Never
    /\ pmToday = Nothing
    /\ mktRef = Nothing
    /\ evalLog = NoCloses

\* the driver calls on_bar with the next bar of a symbol's stream
OnBar(symbol, bar) ==
    /\ symbol \in Stamped <=> bar.timestamp # None
    /\ InOrder(symbol, bar)
    /\ LET out == on_bar(State, confirm_bars, symbol, bar)
       IN  /\ Install(out.st)
           /\ last' = Call("on_bar", symbol, bar, out)
           /\ Record(symbol, bar, out)
    /\ UNCHANGED confirm_bars

\* the driver starts a new run
OnStart ==
    /\ Install(on_start(State))
    /\ last' = [NoCall("on_start") EXCEPT !.held = \E s \in Symbols : Get(in_position, s, FALSE)]
    /\ clock' = Nothing
    /\ holding' = Never
    /\ boughtToday' = Never
    /\ pmToday' = Nothing
    /\ mktRef' = Nothing
    /\ evalLog' = NoCloses
    /\ UNCHANGED confirm_bars

OnStop ==
    /\ Install(on_stop(State))
    /\ last' = NoCall("on_stop")
    /\ UNCHANGED <<confirm_bars, history>>

Next ==
    \/ \E symbol \in Symbols, bar \in Bar : OnBar(symbol, bar)
    \/ OnStart
    \/ OnStop

Spec == Init /\ [][Next]_vars

\* ------------------------------------------- two timestamped streams
\* A second machine, in which every symbol has a stream of timestamped bars
\* and the driver delivers the bars of all streams in one time order.  Its
\* bars are flat (open = high = close) at the lowest or the highest price,
\* on the first or the last day; the bars of the symbols outside Stamped
\* stay at the lowest price.  Of the history only the clock is kept, as the
\* time the merged feed has reached, and of the last call only that it was
\* an on_bar.
FeedBar(symbol) ==
    {b \in Bar : /\ b.timestamp # None
                 /\ b.timestamp[1] \div DayLen \in {0, MaxDay}
                 /\ b.open = b.high /\ b.close = b.high
                 /\ b.high \in (IF symbol \in Stamped THEN {1, MaxPrice} ELSE {1})}

\* the merged feed's contract: non-decreasing timestamps across the symbols
InFeedOrder(bar) ==
    \A s \in Symbols : clock[s] # None => clock[s][1] <= bar.timestamp[1]

InitFeed == Init /\ confirm_bars \in {0, MaxConfirm}

OnBarFeed(symbol, bar) ==
    /\ InFeedOrder(bar)
    /\ LET out == on_bar(State, confirm_bars, symbol, bar)
       IN  /\ Install(out.st)
           /\ last' = NoCall("on_bar")
    /\ clock' = [s \in Symbols |-> bar.timestamp]
    /\ UNCHANGED <<confirm_bars, holding, boughtToday, pmToday, mktRef, evalLog>>

NextFeed == \E symbol \in Symbols : \E bar \in FeedBar(symbol) : OnBarFeed(symbol, bar)

SpecFeed == InitFeed /\ [][NextFeed]_vars

\* ---------------------------------------------- one bar, at any minute
\* A third machine: a newly constructed engine is given one bar, flat at the
\* lowest price, stamped with any minute of any day.
MinuteBar ==
    [timestamp : {Some(d * DayLen + m) : d \in 0..MaxDay, m \in 0..(DayLen - 1)},
     open : {1}, high : {1}, close : {1}]

OnFirstBar(symbol, bar) ==
    /\ last.op = "init"
    /\ LET out == on_bar(State, confirm_bars, symbol, bar)
       IN  /\ Install(out.st)
           /\ last' = Call("on_bar", symbol, bar, out)
    /\ clock' = Set(clock, symbol, bar.timestamp)
    /\ UNCHANGED <<confirm_bars, holding, boughtToday, pmToday, mktRef, evalLog>>

NextFirstBar == \E symbol \in Symbols, bar \in MinuteBar : OnFirstBar(symbol, bar)

SpecFirstBar == Init /\ [][NextFirstBar]_vars

\* ============================================================== claims
\* the step is an on_bar call for a timestamped bar of symbol s
BarStep(s) == last'.op = "on_bar" /\ last'.symbol = s /\ last'.stamped
\* the bar of the step opens a new trading date of s's stream
NewDateStep(s) ==
    clock[s] = None \/ TradingDate(clock[s][1]) # TradingDate(clock'[s][1])
Held(s) == Get(in_position, s, FALSE)
Dates == {TradingDate(t) : t \in Timestamps}

\* C1 (as stated): a BUY is returned only by a call that starts with
\* in_position[symbol] false, and a SELL only by a call that starts with
\* in_position[symbol] true.
C1_AsStated ==
    [][\A s \in Symbols : BarStep(s) =>
          /\ last'.signal = "BUY" => ~Held(s)
          /\ last'.signal = "SELL" => Held(s)]_vars

\* C1 (amended): a BUY is returned only by a call in which in_position[symbol]
\* is false once the call's daily reset has run (the first bar of a new
\* trading date clears a position left open and may itself return BUY); a
\* SELL is returned only by a call that starts with in_position[symbol] true.
C1_BuyWhenFlatAfterReset ==
    [][\A s \in Symbols : BarStep(s) =>
          /\ last'.signal = "BUY" =>
                ~Get(reset_daily_state(State, s, TradingDate(clock'[s][1])).in_position,
                     s, FALSE)
          /\ last'.signal = "SELL" => Held(s)]_vars

\* a BUY returned by a call that started with a position open since an
\* earlier date and ran the daily reset
C1_Witness ==
    \E s \in Symbols :
        /\ last.op = "on_bar" /\ last.symbol = s
        /\ last.signal = "BUY" /\ last.held /\ last.reset /\ Held(s)

\* C2: with bars in timestamp order, BUY is returned at most once per symbol
\* per trading date: no bar of a date on which BUY was already returned yields
\* BUY, also after the position was sold.
C2_OneBuyPerDate ==
    [][\A s \in Symbols :
          BarStep(s) /\ ~NewDateStep(s) /\ boughtToday[s] => last'.signal # "BUY"]_vars

\* a market-hours bar that returned nothing on a date with a BUY and a SELL
C2_Witness ==
    \E s \in Symbols :
        /\ last.op = "on_bar" /\ last.symbol = s /\ last.stamped
        /\ last.signal = "NONE" /\ Phase(clock[s][1]) = "market"
        /\ boughtToday[s] /\ ~holding[s] /\ ~Held(s)

\* C3 (as stated): in_position[symbol] is true exactly when the most recent
\* signal for the symbol is a BUY with no SELL after it.
C3_AsStated == \A s \in Symbols : Held(s) <=> holding[s]

\* C3 (amended): in_position[symbol] is true exactly when the most recent
\* signal for the symbol is a BUY with no SELL after it and that BUY was
\* returned on the current trading date of the symbol's stream: the daily
\* reset, too, makes in_position false.
C3_HeldIffBoughtToday == \A s \in Symbols : Held(s) <=> (holding[s] /\ boughtToday[s])

\* the last signal is a BUY, and the reset of a later date cleared in_position
C3_Witness ==
    \E s \in Symbols : holding[s] /\ ~boughtToday[s] /\ ~Held(s) /\ last.reset

\* C4: on a trading date with at least one premarket bar, the reference the
\* date's market-hours bars use is the maximum of the highs of that date's
\* premarket bars.
C4_ReferenceIsTodaysPremarketHigh ==
    \A s \in Symbols :
        mktRef[s] # None /\ pmToday[s] # None => mktRef[s] = pmToday[s]

\* C5: the reset of a bar of another date than the stored one clears the
\* breakout flag, the buffer and in_position and leaves the premarket high and
\* the previous close as they are; with bars in timestamp order an on_bar
\* call runs it exactly when its bar is the first of a trading date.
C5_ResetEffect ==
    \A s \in Symbols, d \in Dates :
        reset_needed(State, s, d) =>
            LET r == reset_daily_state(State, s, d)
            IN  /\ r.first_break_done[s] = FALSE
                /\ r.buffer[s] = <<>>
                /\ r.in_position[s] = FALSE
                /\ r.current_date[s] = d
                /\ r.premarket_high = premarket_high
                /\ r.previous_close = previous_close
C5_ResetOncePerDate ==
    /\ []C5_ResetEffect
    /\ [][\A s \in Symbols : BarStep(s) => (last'.reset <=> NewDateStep(s))]_vars

\* the reset ran on the first bar of a later date, the reference kept, an
\* open position cleared
C5_Witness ==
    \E s \in Symbols :
        /\ last.op = "on_bar" /\ last.symbol = s /\ last.reset
        /\ s \in DOMAIN premarket_high /\ s \in DOMAIN previous_close
        /\ holding[s] /\ ~Held(s)

\* C6: on_bar with a bar without timestamp returns no signal and leaves every
\* dictionary as it is, for a symbol seen before and for one never seen.
C6_NoTimestampNoEffect ==
    \A s \in Symbols, b \in Bar :
        b.timestamp = None =>
            LET out == on_bar(State, confirm_bars, s, b)
            IN  out.signal = "NONE" /\ out.st = State

\* such a call was made for a symbol without entries, beside a symbol in
\* position
C6_Witness ==
    /\ last.op = "on_bar" /\ ~last.stamped
    /\ last.symbol \notin DOMAIN current_date
    /\ \E s \in Symbols : Held(s)

\* C7: with bars in timestamp order, every market-hours bar of a symbol on a
\* trading date resolves the reference the first market-hours bar of the date
\* resolved, and no market-hours bar after the first changes the stored
\* premarket high or previous close.
C7_SameReference ==
    \A s \in Symbols :
        last.op = "on_bar" /\ last.symbol = s /\ last.stamped
        /\ Phase(clock[s][1]) = "market" => last.ref = mktRef[s]
C7_ReferenceFixed ==
    /\ []C7_SameReference
    /\ [][\A s \in Symbols :
            BarStep(s) /\ ~NewDateStep(s) /\ mktRef[s] # None
            /\ Phase(clock'[s][1]) = "market"
            => premarket_high' = premarket_high /\ previous_close' = previous_close]_vars

\* a market-hours bar resolved the stored reference on a first date without
\* premarket bars and without previous close: the open an earlier bar stored
C7_Witness ==
    \E s \in Symbols :
        /\ last.op = "on_bar" /\ last.symbol = s /\ last.via = "premarket_high"
        /\ clock[s] # None /\ Phase(clock[s][1]) = "market"
        /\ pmToday[s] = None /\ s \notin DOMAIN previous_close
        /\ current_date[s] = 0

\* a timestamped market-hours bar within the entry window
InEntryWindow(b) ==
    /\ b.timestamp # None
    /\ Phase(b.timestamp[1]) = "market"
    /\ LocalTime(b.timestamp[1]) - Time(9, 30) <= trade_cutoff_minute

\* C8: with confirm_bars = 0, for a symbol not in position and without
\* breakout today (the bar is the first of its date, or both flags are
\* false), one market-hours bar within the entry window with
\* high >= reference and close >= reference makes on_bar return BUY and sets
\* in_position and the breakout flag.
C8_ImmediateBuy ==
    confirm_bars = 0 =>
        \A s \in Stamped, b \in Bar :
            /\ InEntryWindow(b) /\ InOrder(s, b)
            /\ NewDate(s, b) \/ (~Held(s) /\ ~Get(first_break_done, s, FALSE))
            => LET out == on_bar(State, confirm_bars, s, b)
               IN  b.high >= out.ref[1] /\ b.close >= out.ref[1] =>
                      /\ out.signal = "BUY"
                      /\ out.st.in_position[s] = TRUE
                      /\ out.st.first_break_done[s] = TRUE

\* such a bar was delivered after a premarket bar and BUY came back
C8_Witness ==
    \E s \in Symbols :
        /\ confirm_bars = 0
        /\ last.op = "on_bar" /\ last.symbol = s /\ last.signal = "BUY"
        /\ ~last.held /\ last.via = "premarket_high" /\ pmToday[s] # None
        /\ Held(s) /\ first_break_done[s]

\* C9: with confirm_bars = K >= 1, BUY is returned on a bar only if that bar
\* and the K-1 bars evaluated for entry before it on the same trading date
\* all closed at or above the reference; the first K-1 bars evaluated on a
\* date never yield BUY.
C9_ConfirmedBuy ==
    \A s \in Symbols :
        confirm_bars >= 1 /\ last.op = "on_bar" /\ last.symbol = s /\ last.signal = "BUY"
        => /\ Len(evalLog[s]) = confirm_bars
           /\ \A i \in 1..Len(evalLog[s]) : evalLog[s][i] >= last.ref[1]

\* BUY on the second of two qualifying bars with confirm_bars = 2
C9_Witness ==
    \E s \in Symbols :
        /\ confirm_bars = 2
        /\ last.op = "on_bar" /\ last.symbol = s /\ last.signal = "BUY"
        /\ Len(evalLog[s]) = 2

\* the stored premarket high is present and finite
HasPremarketHigh(s) == s \in DOMAIN premarket_high /\ premarket_high[s] > NegInf

\* C10: a market-hours bar resolves its reference as (a) the stored premarket
\* high if present and finite, else (b) the previous close if recorded, else
\* (c) the bar's open, which is then stored as the premarket high.
C10_OpenFallback ==
    \A s \in Stamped :
        ~HasPremarketHigh(s) /\ s \notin DOMAIN previous_close =>
            \A b \in Bar :
                b.timestamp # None /\ Phase(b.timestamp[1]) = "market" /\ InOrder(s, b)
                => LET out == on_bar(State, confirm_bars, s, b)
                   IN  /\ out.ref = Some(b.open)
                       /\ out.st.premarket_high[s] = b.open
C10_FallbackChain ==
    /\ []C10_OpenFallback
    /\ [][\A s \in Symbols :
            BarStep(s) /\ Phase(clock'[s][1]) = "market" =>
               IF HasPremarketHigh(s)
               THEN last'.ref = Some(premarket_high[s]) /\ premarket_high' = premarket_high
               ELSE IF s \in DOMAIN previous_close
               THEN last'.ref = Some(previous_close[s]) /\ premarket_high' = premarket_high
               ELSE premarket_high'[s] = last'.ref[1]]_vars

\* a first market-hours bar stored its open, 2, as the reference
C10_Witness ==
    \E s \in Symbols :
        /\ last.op = "on_bar" /\ last.symbol = s /\ last.via = "open"
        /\ last.ref = Some(MaxPrice) /\ premarket_high[s] = MaxPrice
        /\ s \notin DOMAIN previous_close

\* C11: on_stop changes no engine state, whatever was called before it
\* (nothing, on_start, on_bar or on_stop itself), so the calls that follow
\* start from the dictionaries and the configuration they would have started
\* from without it (on_start and on_bar read nothing else).
C11_OnStopNoEffect ==
    [][last'.op = "on_stop" =>
          /\ engine' = engine
          /\ confirm_bars' = confirm_bars]_vars

\* on_stop was called while a symbol was in position, and the position is
\* still there
C11_Witness ==
    /\ last.op = "on_stop"
    /\ \E s \in Symbols : Held(s) /\ holding[s] /\ boughtToday[s]
\* C12: on_start leaves the engine as a newly constructed one with the same
\* configuration: all six dictionaries empty for every symbol, whatever bars
\* were processed before, so the bars that follow yield what they yield on a
\* new engine (on_bar reads nothing but the dictionaries, the configuration
\* and its arguments).
C12_OnStartAsNew ==
    [][last'.op = "on_start" =>
          /\ State' = Fresh
          /\ confirm_bars' = confirm_bars]_vars

\* on_start was called while a symbol was in position
C12_Witness ==
    /\ last.op = "on_start" /\ last.held
    /\ State = Fresh
\* a dictionary, and the six of them, cut down to the keys in K
Restrict(d, K) == [x \in DOMAIN d \cap K |-> d[x]]
Only(st, K) ==
    [premarket_high |-> Restrict(st.premarket_high, K),
     previous_close |-> Restrict(st.previous_close, K),
     first_break_done |-> Restrict(st.first_break_done, K),
     buffer |-> Restrict(st.buffer, K),
     in_position |-> Restrict(st.in_position, K),
     current_date |-> Restrict(st.current_date, K)]

\* C13: on_bar for a symbol reads and writes that symbol's entries only: it
\* leaves the entries of every other symbol as they are, and it returns the
\* signal and leaves the entries it would on an engine holding nothing but
\* that symbol's entries.  (Hence the signals and the final entries of a
\* symbol are those of its own bar sequence, however the streams interleave.)
C13_SymbolLocal ==
    \A s \in Symbols, b \in Bar :
        LET out == on_bar(State, confirm_bars, s, b)
            alone == on_bar(Only(State, {s}), confirm_bars, s, b)
        IN  /\ Only(out.st, Symbols \ {s}) = Only(State, Symbols \ {s})
            /\ out.signal = alone.signal
            /\ Only(out.st, {s}) = alone.st

\* a bar of one symbol was processed on a later date than the other symbol's
\* stored date, while the other symbol was in position
C13_Witness ==
    \E a \in Symbols, b \in Symbols :
        /\ a # b /\ last.op = "on_bar"
        /\ a \in DOMAIN current_date /\ b \in DOMAIN current_date
        /\ current_date[a] > current_date[b]
        /\ Held(b) /\ ~Held(a)
\* the bars of every price whose reference-zone date and time of day are
\* the given ones
BarsAt(date, t) ==
    [timestamp : {Some(date * DayLen + t + EasternOffset)},
     open : Prices, high : Prices, close : Prices]
\* market-hours times of day: the open, the ends of the entry window, the
\* minutes around the exit time, the close
MarketTimes ==
    {Time(9, 30), Time(9, 30) + trade_cutoff_minute, Time(9, 31) + trade_cutoff_minute,
     Time(exit_time_hour, exit_time_minute) - 1, Time(exit_time_hour, exit_time_minute),
     Time(exit_time_hour, exit_time_minute) + 1, Time(16, 0)}

SinceOpen(t) == ((t \div 60) - 9) * 60 + ((t % 60) - 30)
\* a market-hours instant past the entry window
Late(ts) == Phase(ts) = "market" /\ SinceOpen(LocalTime(ts)) > trade_cutoff_minute
\* market-hours times of day past the entry window: its first minute and the
\* close
LateTimes == {Time(9, 31) + trade_cutoff_minute, Time(16, 0)}
\* the bars at a date and time as a feed sends them
FeedBarsAt(date, t) == {b \in BarsAt(date, t) : b.high >= b.open /\ b.high >= b.close}
\* breakout flag, buffer and in_position of a symbol
EntryState(st, s) ==
    <<Get(st.first_break_done, s, FALSE), Get(st.buffer, s, <<>>),
      Get(st.in_position, s, FALSE)>>

\* C15 (as stated): BUY is returned only on market-hours bars at most
\* trade_cutoff_minute minutes after 09:30; a later market-hours bar of a
\* symbol not in position leaves breakout flag, buffer and in_position as
\* they were.
C15_AsStated ==
    [][\A s \in Symbols : BarStep(s) =>
          /\ last'.signal = "BUY" =>
                /\ Phase(clock'[s][1]) = "market"
                /\ SinceOpen(LocalTime(clock'[s][1])) <= trade_cutoff_minute
          /\ ~Held(s) /\ Late(clock'[s][1]) =>
                EntryState(State, s)' = EntryState(State, s)]_vars

\* C15 (amended): BUY is returned only on market-hours bars at most
\* trade_cutoff_minute minutes after 09:30; a later market-hours bar of a
\* symbol not in position returns nothing and leaves breakout flag, buffer
\* and in_position as the daily reset of the call leaves them (a bar of the
\* stored date: as they were; the first bar of a date: cleared).  Stated for
\* the bars of the stored date and of the date after it, and for the bars
\* delivered.
C15_LateProbe ==
    \A s \in Stamped, d \in Dates :
        Get(current_date, s, d) <= d /\ d <= Get(current_date, s, d) + 1 =>
            \A t \in LateTimes : \A b \in FeedBarsAt(d, t) :
                LET out == on_bar(State, confirm_bars, s, b)
                IN  /\ SinceOpen(t) > trade_cutoff_minute
                    /\ out.signal # "BUY"
                    /\ ~Held(s) =>
                          /\ out.signal = "NONE"
                          /\ EntryState(out.st, s)
                                = EntryState(reset_daily_state(State, s, d), s)
C15_EntryWindow ==
    /\ []C15_LateProbe
    /\ [][\A s \in Symbols : BarStep(s) =>
            /\ last'.signal = "BUY" =>
                  /\ Phase(clock'[s][1]) = "market"
                  /\ SinceOpen(LocalTime(clock'[s][1])) <= trade_cutoff_minute
            /\ ~Held(s) /\ Late(clock'[s][1]) =>
                  /\ last'.signal = "NONE"
                  /\ EntryState(State, s)'
                        = EntryState(reset_daily_state(State, s, TradingDate(clock'[s][1])), s)]_vars

\* a bar past the entry window, the first of the last date of a stream that
\* began earlier, found the symbol out of position and returned nothing
C15_Witness ==
    \E s \in Symbols :
        /\ last.op = "on_bar" /\ last.symbol = s /\ last.stamped /\ last.signal = "NONE"
        /\ ~last.held /\ last.reset /\ Late(clock[s][1])
        /\ ~first_break_done[s] /\ buffer[s] = <<>> /\ ~Held(s)
        /\ current_date[s] = MaxDay /\ s \in DOMAIN previous_close
\* the last minute of premarket and the first minute of after-hours
OffHours == {Time(9, 29), Time(16, 1)}

\* C16: a premarket bar and an after-hours bar return no signal.  Apart
\* from the daily reset, a premarket bar changes only the stored premarket
\* high, to max(stored value, bar high), and an after-hours bar only the
\* previous close, to the bar's close: breakout flag, buffer and in_position
\* are as the reset leaves them.  Stated for the feed's bars of the stored
\* date and of the date after it, and for the bars delivered.
C16_OffHoursProbe ==
    \A s \in Stamped, d \in Dates :
        Get(current_date, s, d) <= d /\ d <= Get(current_date, s, d) + 1 =>
            \A t \in OffHours : \A b \in FeedBarsAt(d, t) :
                LET out == on_bar(State, confirm_bars, s, b)
                    r == reset_daily_state(State, s, d)
                IN  /\ out.signal = "NONE"
                    /\ out.st =
                         IF t < Time(9, 30)
                         THEN [r EXCEPT !.premarket_high =
                                 Put(r.premarket_high, s,
                                     Max(Get(r.premarket_high, s, NegInf), b.high))]
                         ELSE [r EXCEPT !.previous_close =
                                 Put(r.previous_close, s, b.close)]
C16_OffHoursFrame ==
    /\ []C16_OffHoursProbe
    /\ [][\A s \in Symbols :
            BarStep(s) /\ Phase(clock'[s][1]) # "market" =>
                LET r == reset_daily_state(State, s, TradingDate(clock'[s][1]))
                IN  /\ last'.signal = "NONE"
                    /\ first_break_done' = r.first_break_done
                    /\ buffer' = r.buffer
                    /\ in_position' = r.in_position
                    /\ current_date' = r.current_date
                    /\ IF Phase(clock'[s][1]) = "premarket"
                       THEN /\ previous_close' = previous_close
                            /\ premarket_high'[s] >= Get(premarket_high, s, NegInf)
                       ELSE premarket_high' = premarket_high]_vars

\* an after-hours bar of the date of the purchase recorded its close and
\* left the position open
C16_Witness ==
    \E s \in Symbols :
        /\ last.op = "on_bar" /\ last.symbol = s /\ last.stamped /\ last.signal = "NONE"
        /\ Phase(clock[s][1]) = "after" /\ last.held /\ ~last.reset
        /\ Held(s) /\ first_break_done[s] /\ s \in DOMAIN previous_close
\* C17: a timestamped bar is handled as exactly one of premarket,
\* market-hours and after-hours, by its reference-zone time of day:
\* premarket in [04:00, 09:30), market hours in [09:30, 16:00] (both ends
\* included), after-hours at every other time.  On a new engine the branch
\* taken shows: the premarket branch stores a premarket high and resolves no
\* reference, the market-hours branch resolves a reference, the after-hours
\* branch stores a previous close.
C17_PhaseByTimeOfDay ==
    \A s \in Symbols :
        last.op = "on_bar" /\ last.symbol = s =>
            LET t == LocalTime(clock[s][1])
                pre == s \in DOMAIN premarket_high /\ last.ref = None
                mkt == last.ref # None
                aft == s \in DOMAIN previous_close
            IN  /\ pre <=> (Time(4, 0) <= t /\ t < Time(9, 30))
                /\ mkt <=> (Time(9, 30) <= t /\ t <= Time(16, 0))
                /\ aft <=> (t < Time(4, 0) \/ t > Time(16, 0))
                /\ Cardinality({x \in {"pre", "mkt", "aft"} :
                                   \/ x = "pre" /\ pre
                                   \/ x = "mkt" /\ mkt
                                   \/ x = "aft" /\ aft}) = 1

\* the bar of 16:00 was handled as a market-hours bar
C17_Witness ==
    \E s \in Symbols :
        /\ last.op = "on_bar" /\ last.symbol = s /\ last.stamped
        /\ LocalTime(clock[s][1]) = Time(16, 0)
        /\ last.ref # None /\ s \notin DOMAIN previous_close
\* C18: in every reachable state, in_position[symbol] true implies the
\* breakout flag of the symbol true: a BUY sets both, the daily reset clears
\* both, a SELL clears in_position and leaves the flag.
Broke(s) == Get(first_break_done, s, FALSE)
C18_HeldImpliesBreakout == \A s \in Symbols : Held(s) => Broke(s)
C18_FlagsTogether ==
    /\ []C18_HeldImpliesBreakout
    /\ [][\A s \in Symbols : BarStep(s) =>
            /\ last'.signal = "BUY" => Held(s)' /\ Broke(s)'
            /\ last'.signal = "SELL" =>
                  /\ ~Held(s)'
                  /\ first_break_done' = first_break_done
            /\ last'.reset /\ last'.signal # "BUY" => ~Held(s)' /\ ~Broke(s)']_vars

\* a market-hours bar left an open position and its flag as they were
C18_Witness ==
    \E s \in Symbols :
        /\ last.op = "on_bar" /\ last.symbol = s /\ last.stamped /\ last.signal = "NONE"
        /\ Phase(clock[s][1]) = "market" /\ last.held /\ ~last.reset
        /\ Held(s) /\ first_break_done[s]
\* C19: with bars in timestamp order, the signals of one symbol on one
\* trading date are none, one BUY, or one BUY and later one SELL: the first
\* bar of a date never returns SELL, a later bar returns BUY only if no BUY
\* was returned yet on the date, and SELL only if a BUY was returned on the
\* date and no SELL after it (so nothing follows a SELL on its date).
C19_SignalsOfADate ==
    [][\A s \in Symbols : BarStep(s) =>
          IF NewDateStep(s)
          THEN last'.signal # "SELL"
          ELSE /\ last'.signal = "BUY" => ~boughtToday[s]
               /\ last'.signal = "SELL" => boughtToday[s] /\ holding[s]]_vars

\* a bar at the exit time, after the SELL of the date, returned nothing
C19_Witness ==
    \E s \in Symbols :
        /\ last.op = "on_bar" /\ last.symbol = s /\ last.stamped /\ last.signal = "NONE"
        /\ ~last.held /\ ~last.reset
        /\ LocalTime(clock[s][1]) = Time(exit_time_hour, exit_time_minute)
        /\ boughtToday[s] /\ ~holding[s] /\ Broke(s)
\* the symbols that received a timestamped bar since the last on_start
Seen == {s \in Symbols : clock[s] # None}

\* C20: in every reachable state the dictionaries of the stored date, the
\* breakout flag, the buffer and in_position have the same keys, the symbols
\* that received a timestamped bar since the last on_start, and every buffer
\* holds at most max(1, confirm_bars) closes.
C20_MapsInSync ==
    /\ DOMAIN current_date = Seen
    /\ DOMAIN first_break_done = Seen
    /\ DOMAIN buffer = Seen
    /\ DOMAIN in_position = Seen
    /\ \A s \in DOMAIN buffer : Len(buffer[s]) <= Max(1, confirm_bars)

\* a full buffer without breakout for one symbol, and a bar without
\* timestamp just delivered for a symbol that has no entries
C20_Witness ==
    /\ last.op = "on_bar" /\ ~last.stamped /\ last.symbol \notin Seen
    /\ confirm_bars = MaxConfirm
    /\ \E s \in Seen : Len(buffer[s]) = MaxConfirm /\ ~Broke(s)
====
